---- MODULE Spec2Model ----
(***************************************************************************)
(* anchor: a terminal UI that lists TCP/UDP sockets and manages named SSH  *)
(* local-port-forward tunnels.  This module models the tunnel registry     *)
(* (src/src/tunnel.rs), the controller handlers that drive it              *)
(* (src/src/app.rs, src/src/main.rs) and the host's process table the      *)
(* tunnel code observes through lsof and changes through ssh and kill, and  *)
(* the port discovery (src/src/port.rs) that parses the listing tool's      *)
(* output into the records of the Ports tab.                               *)
(*                                                                         *)
(* Encodings.  Option<T> is a sequence of length at most one: None is <<>> *)
(* and Some(x) is <<x>>.  A String is a sequence of one-character strings, *)
(* so that trim() and parse::<u16>() are computed, not assumed.  A Vec is  *)
(* a sequence; Rust's 0-based index i is element i + 1.                    *)
(***************************************************************************)
EXTENDS Integers, Sequences, FiniteSets, TLC

\* Bounds of the model.
MaxPid == 2       \* process ids on the host are 1..MaxPid (and are recycled)
MaxNames == 3     \* distinct tunnel names the user types into the input dialog
MaxLines == 3     \* lines the listing tool prints after its header
MaxFilter == 2    \* characters typed into the filter

\* u16::MAX, the largest local_port (tunnel.rs:11, app.rs:267).
U16Max == 65535

\* i32::MIN and i32::MAX, the range of PortInfo::pid (port.rs:7).
I32Min == (0 - 2147483647) - 1
I32Max == 2147483647

None == <<>>
Some(x) == <<x>>

Pids == 1..MaxPid
Ports == {1, 2}                 \* local ports in play
Cmds == {"ssh", "nc"}           \* command names lsof prints in its first column

VARIABLES
    tunnels,          \* TunnelManager.tunnels: Vec<TunnelConfig>
    file,             \* the registry file: None (no file) or Some(list of definitions)
    procs,            \* the host: processes holding a TCP socket, {[pid, cmd, port]}
    pc,               \* where the program is: "idle" in the event loop, inside connect, "exited"
    tunnel_selected,  \* App.tunnel_selected
    status_message,   \* App.status_message
    show_confirm,     \* App.show_confirm
    pending_action,   \* App.pending_action: Option<PendingAction>
    show_input,       \* App.show_input
    input_mode,       \* App.input_mode
    input_buffer,     \* App.input_buffer
    new_tunnel,       \* App.new_tunnel: Option<TunnelConfig>
    kill_cmd,         \* the kill command the latest handler issued: None, or Some(Kill(..))
    listing,          \* the host: what `lsof -iTCP -iUDP -P -n` gives when it is run
    ports,            \* App.ports: Vec<PortInfo>
    filtered_ports,   \* App.filtered_ports
    port_selected,    \* App.port_selected
    filter_text,      \* App.filter_text
    show_filter,      \* App.show_filter
    current_tab       \* App.current_tab: "Ports" or "Tunnels"

vars == <<tunnels, file, procs, pc, tunnel_selected, status_message, show_confirm,
          pending_action, show_input, input_mode, input_buffer, new_tunnel, kill_cmd,
          listing, ports, filtered_ports, port_selected, filter_text, show_filter,
          current_tab>>

inputVars == <<show_input, input_mode, input_buffer, new_tunnel>>
confirmVars == <<show_confirm, pending_action>>
portVars == <<listing, ports, filtered_ports, port_selected, filter_text, show_filter,
              current_tab>>

----
\* Strings.

Str(c) == <<c>>
IsSpace(c) == c \in {" ", "\t"}

RECURSIVE TrimStart(_)
TrimStart(s) == IF s # <<>> /\ IsSpace(Head(s)) THEN TrimStart(Tail(s)) ELSE s

RECURSIVE TrimEnd(_)
TrimEnd(s) ==
    IF s # <<>> /\ IsSpace(s[Len(s)]) THEN TrimEnd(SubSeq(s, 1, Len(s) - 1)) ELSE s

\* str::trim
Trim(s) == TrimEnd(TrimStart(s))

Digits == <<"0", "1", "2", "3", "4", "5", "6", "7", "8", "9">>
IsDigit(c) == \E d \in 1..10 : Digits[d] = c
DigitVal(c) == (CHOOSE d \in 1..10 : Digits[d] = c) - 1

RECURSIVE DecimalValue(_, _)
DecimalValue(s, acc) ==
    IF s = <<>> THEN acc ELSE DecimalValue(Tail(s), acc * 10 + DigitVal(Head(s)))

\* A parse that takes any digit string, whatever its value.
ParseUnbounded(s) ==
    LET body == IF s # <<>> /\ Head(s) = "+" THEN Tail(s) ELSE s
    IN  IF body # <<>> /\ (\A i \in 1..Len(body) : IsDigit(body[i]))
        THEN Some(DecimalValue(body, 0))
        ELSE None

\* str::parse::<u16>: Some(n) for a non-empty digit string (an optional leading
\* "+") whose value fits 16 bits, None otherwise.
ParseU16(s) ==
    LET body == IF s # <<>> /\ Head(s) = "+" THEN Tail(s) ELSE s
    IN  IF body # <<>> /\ (\A i \in 1..Len(body) : IsDigit(body[i]))
           /\ DecimalValue(body, 0) <= U16Max
        THEN Some(DecimalValue(body, 0))
        ELSE None

----
\* The host's process table as lsof shows it.

\* `lsof -iTCP -P -n -i:<port>`: a header line, then one row per process with a
\* TCP socket on the port, in pid order; no output at all when nothing matches.
\* A row is its whitespace-separated fields, COMMAND PID ... NAME.
LsofHeader == <<"COMMAND", "PID", "NAME">>

RECURSIVE LsofRows(_, _, _)
LsofRows(table, port, pid) ==
    IF pid > MaxPid THEN <<>>
    ELSE (IF \E p \in table : p.pid = pid /\ p.port = port
          THEN LET p == CHOOSE q \in table : q.pid = pid /\ q.port = port
               IN  << <<p.cmd, p.pid, p.port>> >>
          ELSE <<>>) \o LsofRows(table, port, pid + 1)

lsof_tcp(table, port) ==
    LET rows == LsofRows(table, port, 1)
    IN  [ran |-> TRUE, lines |-> IF rows = <<>> THEN <<>> ELSE <<LsofHeader>> \o rows]

\* The tool could not be invoked: Command::output() is an Err.
LsofUnavailable == [ran |-> FALSE, lines |-> <<>>]

\* str::parse::<u32> of a PID field.
ParsePid(field) == IF field \in Nat THEN Some(field) ELSE None

\* The loop of find_ssh_pid over stdout.lines().skip(1): `i` is the next line.
RECURSIVE FirstSshPid(_, _)
FirstSshPid(lines, i) ==
    IF i > Len(lines) THEN None
    ELSE LET parts == lines[i]
         IN  IF Len(parts) >= 2 /\ parts[1] = "ssh" /\ ParsePid(parts[2]) # None
             THEN ParsePid(parts[2])
             ELSE FirstSshPid(lines, i + 1)

find_ssh_pid_in(output) == IF ~output.ran THEN None ELSE FirstSshPid(output.lines, 2)

\* TunnelConfig::find_ssh_pid, on the process table `table`.
find_ssh_pid_on(t, table) == find_ssh_pid_in(lsof_tcp(table, t.local_port))
find_ssh_pid(t) == find_ssh_pid_on(t, procs)

\* TunnelConfig::is_connected has this bug-shaped variant: trust the cached pid.
is_connected_cached(t) == t.process # None

\* TunnelConfig::is_connected
is_connected(t) == find_ssh_pid(t) # None

----
\* The registry.

\* TunnelConfig::default
DefaultTunnel ==
    [name |-> <<>>, ssh_host |-> <<>>, local_port |-> 0, remote_target |-> <<>>,
     process |-> None]

\* What serde writes of one TunnelConfig: `process` is #[serde(skip)].
Serialize(t) ==
    [name |-> t.name, ssh_host |-> t.ssh_host, local_port |-> t.local_port,
     remote_target |-> t.remote_target]

\* What serde reads back: the skipped field is its Default, None.
Deserialize(d) ==
    [name |-> d.name, ssh_host |-> d.ssh_host, local_port |-> d.local_port,
     remote_target |-> d.remote_target, process |-> None]

\* serde_json::to_string_pretty(&self): the definitions, in order.
to_json(ts) == [i \in 1..Len(ts) |-> Serialize(ts[i])]

\* load that keeps what serde read and looks no process up.
load_without_lookup(f, table) ==
    IF f = None THEN <<>> ELSE [i \in 1..Len(f[1]) |-> Deserialize(f[1][i])]

\* TunnelManager::load on registry file `f` with process table `table`.
load(f, table) ==
    IF f = None THEN <<>>
    ELSE [i \in 1..Len(f[1]) |->
            LET t == Deserialize(f[1][i])
                found == find_ssh_pid_on(t, table)
            IN  IF found # None THEN [t EXCEPT !.process = found] ELSE t]

\* retain with its test inverted.
RetainSame(ts, name) == SelectSeq(ts, LAMBDA t : t.name = name)

\* Vec::retain(|t| t.name != name)
RetainOthers(ts, name) == SelectSeq(ts, LAMBDA t : t.name # name)

\* add without the retain: the new definition is only pushed.
add_push_only(ts, tunnel) == Append(ts, tunnel)

\* TunnelManager::add
add(ts, tunnel) == Append(RetainOthers(ts, tunnel.name), tunnel)

\* `kill <pid>` as the program runs it: whether the command could be run and,
\* if so, whether a process had the pid (kill's exit status, which is ignored).
Kill(pid, kill_ok) ==
    [pid |-> pid, ran |-> kill_ok, alive |-> kill_ok /\ \E p \in procs : p.pid = pid]

\* disconnect signalling the pid a lookup finds even when one is recorded.
disconnect_by_lookup(t, kill_ok) ==
    LET found == find_ssh_pid(t)
    IN  IF found # None
        THEN [tunnel |-> IF kill_ok THEN [t EXCEPT !.process = None] ELSE t,
              kill |-> Some(Kill(found[1], kill_ok)), ok |-> kill_ok]
        ELSE [tunnel |-> [t EXCEPT !.process = None], kill |-> None, ok |-> TRUE]

\* TunnelConfig::disconnect; kill_ok says whether the kill command could be run.
\* The result: the tunnel afterwards, the kill command issued, Ok or Err.
disconnect(t, kill_ok) ==
    IF t.process # None
    THEN [tunnel |-> IF kill_ok THEN [t EXCEPT !.process = None] ELSE t,
          kill |-> Some(Kill(t.process[1], kill_ok)), ok |-> kill_ok]
    ELSE LET found == find_ssh_pid(t)
         IN  IF found # None
             THEN [tunnel |-> t, kill |-> Some(Kill(found[1], kill_ok)), ok |-> kill_ok]
             ELSE [tunnel |-> t, kill |-> None, ok |-> TRUE]

\* The host after a kill command: SIGTERM ends the process that has the pid.
AfterKill(table, kill) ==
    IF kill # None /\ kill[1].ran THEN {p \in table : p.pid # kill[1].pid} ELSE table

\* iter_mut().find(|t| t.name == name): the index of the first match, 0 if none.
FindByName(ts, name) ==
    IF \E i \in 1..Len(ts) : ts[i].name = name
    THEN CHOOSE i \in 1..Len(ts) :
            ts[i].name = name /\ \A j \in 1..(i - 1) : ts[j].name # name
    ELSE 0

\* TunnelManager::remove: the list afterwards and the kill command issued.
remove(ts, name, kill_ok) ==
    LET i == FindByName(ts, name)
    IN  [tunnels |-> RetainOthers(ts, name),
         kill |-> IF i = 0 THEN None ELSE disconnect(ts[i], kill_ok).kill]

----
\* status_message: the message and, for a failure, the error format! put into it
\* (the tunnel name a message quotes is left out).
Msg(text, error) == [text |-> text, error |-> error]

\* No dialog is open: the key reaches the normal-mode match of run_app.
NormalMode == pc = "idle" /\ ~show_input /\ ~show_filter /\ ~show_confirm

\* The keys 'a', 'c', 'd' and 'x' act on the Tunnels tab only.
OnTunnels == current_tab = "Tunnels"

Selected == tunnels[tunnel_selected + 1]
HasSelected == tunnel_selected < Len(tunnels)

\* An std::io::Error from running `what`.
IoError(what) == <<"io error", what>>

\* The errors connect builds from Child::wait_with_output: the client's stderr,
\* trimmed, after "SSH tunnel failed to establish": empty when the client wrote
\* nothing, else its diagnostic.  (Waiting for the child just spawned returns.)
WaitOutcomes == {<<"SSH tunnel failed to establish", "">>,
                 <<"SSH tunnel failed to establish", "diagnostic">>}

\* save that leaves the file as it was.
save_nothing(ts) == file

\* TunnelManager::save, when it succeeds: the file holds the serialized list.
save(ts) == Some(to_json(ts))

\* Vec::get_mut(i) followed by an assignment of the element.
SetSelected(t) == [tunnels EXCEPT ![tunnel_selected + 1] = t]

----
\* The host: processes come and go on their own.  A process that appears may be
\* the forward a spawned ssh client left in the background (ssh -f).

ProcStart(pid, cmd, port) ==
    /\ pc # "exited"
    /\ \A p \in procs : p.pid # pid
    /\ procs' = procs \cup {[pid |-> pid, cmd |-> cmd, port |-> port]}
    /\ UNCHANGED <<tunnels, file, pc, tunnel_selected, status_message, confirmVars,
                   inputVars, kill_cmd>>
    /\ UNCHANGED portVars

ProcExit(pid) ==
    /\ pc # "exited"
    /\ \E p \in procs : p.pid = pid
    /\ procs' = {p \in procs : p.pid # pid}
    /\ UNCHANGED <<tunnels, file, pc, tunnel_selected, status_message, confirmVars,
                   inputVars, kill_cmd>>
    /\ UNCHANGED portVars

----
\* Handlers of the Tunnels tab (run_app's normal-mode match, then App's methods).

\* connect_tunnel without its is_connected check.
connect_tunnel_unchecked ==
    /\ NormalMode /\ OnTunnels /\ HasSelected
    /\ kill_cmd' = None
    /\ \E spawned \in BOOLEAN :
          IF spawned
          THEN pc' = "c_sleep" /\ UNCHANGED status_message
          ELSE /\ pc' = "idle"
               /\ status_message' = Msg("Failed to connect", IoError("ssh"))
    /\ UNCHANGED <<tunnels, file, procs, tunnel_selected, confirmVars, inputVars>>
    /\ UNCHANGED portVars

\* Key 'c': App::connect_tunnel up to the spawn inside TunnelConfig::connect.
connect_tunnel ==
    /\ NormalMode /\ OnTunnels /\ HasSelected
    /\ kill_cmd' = None
    /\ IF is_connected(Selected)
       THEN /\ status_message' = Msg("Tunnel is already connected", <<>>)
            /\ pc' = "idle"
       ELSE \E spawned \in BOOLEAN :
               IF spawned
               THEN pc' = "c_sleep" /\ UNCHANGED status_message
               ELSE /\ pc' = "idle"
                    /\ status_message' = Msg("Failed to connect", IoError("ssh"))
    /\ UNCHANGED <<tunnels, file, procs, tunnel_selected, confirmVars, inputVars>>
    /\ UNCHANGED portVars

\* TunnelConfig::connect after the 500 ms sleep: `if self.is_connected()`.
connect_settle ==
    /\ pc = "c_sleep"
    /\ pc' = IF is_connected(Selected) THEN "c_find" ELSE "c_wait"
    /\ UNCHANGED <<tunnels, file, procs, tunnel_selected, status_message, confirmVars,
                   inputVars, kill_cmd>>
    /\ UNCHANGED portVars

\* The Ok branch: a second lookup, the pid recorded if it finds one, Ok(()).
connect_record ==
    /\ pc = "c_find"
    /\ LET found == find_ssh_pid(Selected)
       IN  tunnels' = IF found # None
                      THEN SetSelected([Selected EXCEPT !.process = found])
                      ELSE tunnels
    /\ status_message' = Msg("Connected tunnel", <<>>)
    /\ pc' = "idle"
    /\ UNCHANGED <<file, procs, tunnel_selected, confirmVars, inputVars, kill_cmd>>
    /\ UNCHANGED portVars

\* The Err branch: the client is awaited and its stderr becomes the error.
connect_wait ==
    /\ pc = "c_wait"
    /\ \E e \in WaitOutcomes : status_message' = Msg("Failed to connect", e)
    /\ pc' = "idle"
    /\ UNCHANGED <<tunnels, file, procs, tunnel_selected, confirmVars, inputVars,
                   kill_cmd>>
    /\ UNCHANGED portVars

\* Key 'd': App::disconnect_tunnel.
disconnect_tunnel ==
    /\ NormalMode /\ OnTunnels /\ HasSelected
    /\ IF ~is_connected(Selected)
       THEN /\ status_message' = Msg("Tunnel is not connected", <<>>)
            /\ kill_cmd' = None
            /\ UNCHANGED <<tunnels, procs>>
       ELSE \E kill_ok \in BOOLEAN :
               LET r == disconnect(Selected, kill_ok)
               IN  /\ tunnels' = SetSelected(r.tunnel)
                   /\ kill_cmd' = r.kill
                   /\ procs' = AfterKill(procs, r.kill)
                   /\ status_message' =
                        IF r.ok THEN Msg("Disconnected tunnel", <<>>)
                        ELSE Msg("Failed to disconnect", IoError("kill"))
    /\ UNCHANGED <<file, pc, tunnel_selected, confirmVars, inputVars>>
    /\ UNCHANGED portVars

\* Key 'x': App::request_delete_tunnel.
request_delete_tunnel ==
    /\ NormalMode /\ OnTunnels /\ HasSelected
    /\ pending_action' = Some([kind |-> "DeleteTunnel", name |-> Selected.name])
    /\ show_confirm' = TRUE
    /\ kill_cmd' = None
    /\ UNCHANGED <<tunnels, file, procs, pc, tunnel_selected, status_message, inputVars>>
    /\ UNCHANGED portVars

\* The list of the current tab has an entry to select.
ListNonEmpty == IF OnTunnels THEN Len(tunnels) > 0 ELSE filtered_ports # <<>>

\* A selection handler that sets the selected index of the current tab's list.
SelectIn(tunnel_index, port_index) ==
    /\ NormalMode
    /\ IF OnTunnels
       THEN tunnel_selected' = tunnel_index /\ UNCHANGED port_selected
       ELSE port_selected' = port_index /\ UNCHANGED tunnel_selected
    /\ kill_cmd' = None
    /\ UNCHANGED <<tunnels, file, procs, pc, status_message, confirmVars, inputVars,
                   listing, ports, filtered_ports, filter_text, show_filter, current_tab>>

\* Key Down or 'j': App::select_next.
select_next ==
    /\ ListNonEmpty
    /\ SelectIn((tunnel_selected + 1) % Len(tunnels),
                (port_selected + 1) % Len(filtered_ports))

\* Key Up or 'k': App::select_prev.
select_prev ==
    /\ ListNonEmpty
    /\ SelectIn(IF tunnel_selected = 0 THEN Len(tunnels) - 1 ELSE tunnel_selected - 1,
                IF port_selected = 0 THEN Len(filtered_ports) - 1 ELSE port_selected - 1)

\* Key Home or 'g': App::select_first.
select_first == SelectIn(0, 0)

\* Key End or 'G': App::select_last.
select_last ==
    /\ ListNonEmpty
    /\ SelectIn(Len(tunnels) - 1, Len(filtered_ports) - 1)

\* Key 'q' outside the input and filter dialogs: run_app returns.
quit ==
    /\ pc = "idle" /\ ~show_input /\ ~show_filter
    /\ pc' = "exited"
    /\ UNCHANGED <<tunnels, file, procs, tunnel_selected, status_message, confirmVars,
                   inputVars, kill_cmd>>
    /\ UNCHANGED portVars

----
\* The input dialog (keys 'a', characters, Enter, Esc).

NameChars == <<"a", "b", "c", "d">>
Names == {Str(NameChars[i]) : i \in 1..MaxNames}

\* What the user may have typed when a key handler next looks at the buffer.
\* A run of Char and Backspace keys is taken as one step.
TypedInputs(mode) ==
    CASE mode = "TunnelName" -> {<<" ">>} \cup {<<" ", n[1], " ">> : n \in Names}
      [] mode = "TunnelHost" -> {<<"h">>}
      [] mode = "TunnelLocalPort" ->
            {<<Digits[p + 1]>> : p \in Ports} \cup {<<"x">>, <<"6", "5", "5", "3", "6">>}
      [] mode = "TunnelRemotePort" -> {<<"r">>}
      [] OTHER -> {}

\* Key 'a': App::start_add_tunnel.
start_add_tunnel ==
    /\ NormalMode /\ OnTunnels
    /\ new_tunnel' = Some(DefaultTunnel)
    /\ input_mode' = "TunnelName"
    /\ input_buffer' = <<>>
    /\ show_input' = TRUE
    /\ kill_cmd' = None
    /\ UNCHANGED <<tunnels, file, procs, pc, tunnel_selected, status_message, confirmVars>>
    /\ UNCHANGED portVars

\* Char and Backspace keys in the input dialog: input_buffer.push / pop.
type_input ==
    /\ pc = "idle" /\ show_input
    /\ \E s \in TypedInputs(input_mode) : input_buffer' = s
    /\ kill_cmd' = None
    /\ UNCHANGED <<tunnels, file, procs, pc, tunnel_selected, status_message, confirmVars,
                   show_input, input_mode, new_tunnel>>
    /\ UNCHANGED portVars

\* Key Enter in the input dialog: App::submit_input.
submit_input ==
    /\ pc = "idle" /\ show_input
    /\ kill_cmd' = None
    /\ LET input == Trim(input_buffer)
       IN  IF input = <<>>
           THEN /\ status_message' = Msg("Input cannot be empty", <<>>)
                /\ UNCHANGED <<tunnels, file, pc, inputVars>>
           ELSE IF new_tunnel = None
           THEN UNCHANGED <<tunnels, file, pc, status_message, inputVars>>
           ELSE LET tunnel == new_tunnel[1]
                IN  CASE input_mode = "TunnelName" ->
                           /\ new_tunnel' = Some([tunnel EXCEPT !.name = input])
                           /\ input_mode' = "TunnelHost"
                           /\ input_buffer' = <<>>
                           /\ UNCHANGED <<tunnels, file, pc, status_message, show_input>>
                      [] input_mode = "TunnelHost" ->
                           /\ new_tunnel' = Some([tunnel EXCEPT !.ssh_host = input])
                           /\ input_mode' = "TunnelLocalPort"
                           /\ input_buffer' = <<>>
                           /\ UNCHANGED <<tunnels, file, pc, status_message, show_input>>
                      [] input_mode = "TunnelLocalPort" ->
                           IF ParseU16(input) # None
                           THEN /\ new_tunnel' =
                                     Some([tunnel EXCEPT !.local_port = ParseU16(input)[1]])
                                /\ input_mode' = "TunnelRemotePort"
                                /\ input_buffer' = <<>>
                                /\ UNCHANGED <<tunnels, file, pc, status_message, show_input>>
                           ELSE /\ status_message' = Msg("Invalid port number", <<>>)
                                /\ UNCHANGED <<tunnels, file, pc, inputVars>>
                      [] input_mode = "TunnelRemotePort" ->
                           LET done == [tunnel EXCEPT !.remote_target = input]
                           IN  /\ tunnels' = add(tunnels, done)
                               /\ \E save_ok \in BOOLEAN :
                                    IF save_ok
                                    THEN /\ file' = save(tunnels')
                                         /\ status_message' = Msg("Added tunnel", <<>>)
                                         /\ new_tunnel' = None
                                         /\ show_input' = FALSE
                                         /\ input_mode' = "None"
                                         /\ UNCHANGED <<pc, input_buffer>>
                                    ELSE /\ pc' = "exited"
                                         /\ new_tunnel' = Some(done)
                                         /\ UNCHANGED <<file, status_message, show_input,
                                                        input_mode, input_buffer>>
                      [] OTHER -> UNCHANGED <<tunnels, file, pc, status_message, inputVars>>
    /\ UNCHANGED <<procs, tunnel_selected, confirmVars>>
    /\ UNCHANGED portVars

\* cancel_input that leaves the pending definition in place.
cancel_input_keeps_tunnel ==
    /\ pc = "idle" /\ show_input
    /\ show_input' = FALSE
    /\ input_mode' = "None"
    /\ input_buffer' = <<>>
    /\ kill_cmd' = None
    /\ UNCHANGED <<tunnels, file, procs, pc, tunnel_selected, status_message, confirmVars,
                   new_tunnel>>
    /\ UNCHANGED portVars

\* Key Esc in the input dialog: App::cancel_input.
cancel_input ==
    /\ pc = "idle" /\ show_input
    /\ show_input' = FALSE
    /\ input_mode' = "None"
    /\ new_tunnel' = None
    /\ input_buffer' = <<>>
    /\ kill_cmd' = None
    /\ UNCHANGED <<tunnels, file, procs, pc, tunnel_selected, status_message, confirmVars>>
    /\ UNCHANGED portVars

----
\* Port discovery (port.rs).  The tool's output is ASCII here, so Rust's byte
\* offsets are character offsets.

\* str::contains
Contains(s, pat) ==
    \E i \in 1..(Len(s) - Len(pat) + 1) : SubSeq(s, i, i + Len(pat) - 1) = pat

\* The 0-based offsets at which `pat` occurs in `s`.
Occurrences(s, pat) ==
    {i - 1 : i \in {j \in 1..(Len(s) - Len(pat) + 1) : SubSeq(s, j, j + Len(pat) - 1) = pat}}

\* str::find and str::rfind: the offset of the first and of the last occurrence.
Find(s, pat) ==
    LET at == Occurrences(s, pat)
    IN  IF at = {} THEN None ELSE Some(CHOOSE i \in at : \A j \in at : i <= j)

RFind(s, pat) ==
    LET at == Occurrences(s, pat)
    IN  IF at = {} THEN None ELSE Some(CHOOSE i \in at : \A j \in at : j <= i)

RECURSIVE Split(_, _)
\* str::split(pat).collect()
Split(s, pat) ==
    LET at == Find(s, pat)
    IN  IF at = None THEN <<s>>
        ELSE <<SubSeq(s, 1, at[1])>> \o Split(SubSeq(s, at[1] + Len(pat) + 1, Len(s)), pat)

RECURSIVE split_whitespace(_)
\* str::split_whitespace().collect(): the maximal runs of non-blank characters.
split_whitespace(s) ==
    LET t == TrimStart(s)
        blanks == {i \in 1..Len(t) : IsSpace(t[i])}
        stop == IF blanks = {} THEN Len(t) + 1 ELSE CHOOSE i \in blanks : \A j \in blanks : i <= j
    IN  IF t = <<>> THEN <<>>
        ELSE <<SubSeq(t, 1, stop - 1)>> \o split_whitespace(SubSeq(t, stop, Len(t)))

\* str::parse::<i32>: an optional sign, digits, a value that fits 32 bits.
ParseI32(s) ==
    LET signed == s # <<>> /\ Head(s) \in {"+", "-"}
        body == IF signed THEN Tail(s) ELSE s
        value == IF s # <<>> /\ Head(s) = "-" THEN 0 - DecimalValue(body, 0)
                 ELSE DecimalValue(body, 0)
    IN  IF body # <<>> /\ (\A i \in 1..Len(body) : IsDigit(body[i]))
           /\ value >= I32Min /\ value <= I32Max
        THEN Some(value)
        ELSE None

\* parse_address_port splitting at the first colon.
parse_address_first_colon(addr) ==
    LET first_colon == Find(addr, <<":">>)
    IN  IF first_colon = None THEN None
        ELSE LET port == ParseU16(Split(SubSeq(addr, first_colon[1] + 2, Len(addr)), <<"(">>)[1])
             IN  IF port = None THEN None
                 ELSE Some(<<SubSeq(addr, 1, first_colon[1]), port[1]>>)

\* parse_address_port: Some(<<address, port>>) or None.
parse_address_port(addr) ==
    IF addr # <<>> /\ Head(addr) = "["
    THEN LET bracket_end == Find(addr, <<"]">>)
         IN  IF bracket_end = None THEN None
             ELSE LET ip == SubSeq(addr, 2, bracket_end[1])
                      \* addr.get(bracket_end + 2..)
                      port_str == IF bracket_end[1] + 2 <= Len(addr)
                                  THEN Some(SubSeq(addr, bracket_end[1] + 3, Len(addr)))
                                  ELSE None
                      port == IF port_str = None THEN None ELSE ParseU16(port_str[1])
                  IN  IF port = None THEN None ELSE Some(<<ip, port[1]>>)
    ELSE LET last_colon == RFind(addr, <<":">>)
         IN  IF last_colon = None THEN None
             ELSE LET ip == SubSeq(addr, 1, last_colon[1])
                      port_str == SubSeq(addr, last_colon[1] + 2, Len(addr))
                      port == ParseU16(Split(port_str, <<"(">>)[1])
                  IN  IF port = None THEN None ELSE Some(<<ip, port[1]>>)

Arrow == <<"-", ">">>
LISTEN == <<"L", "I", "S", "T", "E", "N">>
ESTABLISHED == <<"E", "S", "T", "A", "B", "L", "I", "S", "H", "E", "D">>
UNKNOWN == <<"U", "N", "K", "N", "O", "W", "N">>
TCP == <<"T", "C", "P">>
UDP == <<"U", "D", "P">>
NoProtocol == <<"?", "?", "?">>

\* parts.iter().any(|p| p.contains(pat))
AnyContains(parts, pat) == \E i \in 1..Len(parts) : Contains(parts[i], pat)

\* parse_lsof_line, the address and port of the NAME column (port.rs:71-78).
local_of(name) ==
    IF Contains(name, Arrow) THEN parse_address_port(Split(name, Arrow)[1])
    ELSE parse_address_port(name)

\* parse_lsof_line, the protocol (port.rs:81-91); parts has 9 fields or more.
protocol_of(parts) ==
    IF Len(parts) > 4
    THEN IF Contains(parts[5], TCP) \/ Contains(parts[8], TCP) THEN TCP
         ELSE IF Contains(parts[5], UDP) \/ Contains(parts[8], UDP) THEN UDP
         ELSE NoProtocol
    ELSE NoProtocol

\* The state with ESTABLISHED in a field taken before LISTEN in a field.
state_established_first(parts, name) ==
    IF Contains(name, Arrow) THEN ESTABLISHED
    ELSE IF AnyContains(parts, ESTABLISHED) THEN ESTABLISHED
    ELSE IF AnyContains(parts, LISTEN) THEN LISTEN
    ELSE UNKNOWN

\* parse_lsof_line, the state (port.rs:94-115).
state_of(parts, name) ==
    LET name_idx == Len(parts) - 1
        state_part == IF Len(parts) > name_idx + 1 THEN parts[name_idx + 1]
                      ELSE IF Len(parts) > 1 THEN parts[Len(parts) - 1]
                      ELSE <<>>
    IN  IF Contains(name, Arrow) THEN ESTABLISHED
        ELSE IF AnyContains(parts, LISTEN) THEN LISTEN
        ELSE IF AnyContains(parts, ESTABLISHED) THEN ESTABLISHED
        ELSE IF Contains(state_part, LISTEN) THEN LISTEN
        ELSE UNKNOWN

\* The foreign address taken as all the text after the first arrow.
foreign_after_first_arrow(name) ==
    IF Contains(name, Arrow)
    THEN SubSeq(name, Find(name, Arrow)[1] + Len(Arrow) + 1, Len(name))
    ELSE <<>>

\* parse_lsof_line, the foreign address (port.rs:118-123).
foreign_address_of(name) ==
    IF Contains(name, Arrow)
    THEN LET conn_parts == Split(name, Arrow)
         IN  IF Len(conn_parts) >= 2 THEN conn_parts[2] ELSE <<>>
    ELSE <<>>

\* parse_lsof_line taking only lines of exactly nine fields.
parse_lsof_line_nine(line) ==
    LET parts == split_whitespace(line)
    IN  IF Len(parts) # 9 \/ ParseI32(parts[2]) = None \/ local_of(parts[9]) = None THEN None
        ELSE Some([port |-> local_of(parts[9])[1][2], pid |-> ParseI32(parts[2])[1],
                   process_name |-> parts[1], protocol |-> protocol_of(parts),
                   state |-> state_of(parts, parts[9]),
                   local_address |-> local_of(parts[9])[1][1],
                   foreign_address |-> foreign_address_of(parts[9])])

\* parse_lsof_line: Some(PortInfo) or None.
parse_lsof_line(line) ==
    LET parts == split_whitespace(line)
    IN  IF Len(parts) < 9 THEN None
        ELSE LET pid == ParseI32(parts[2])
                 name == parts[Len(parts)]
                 local == local_of(name)
             IN  IF pid = None \/ local = None THEN None
                 ELSE Some([port |-> local[1][2], pid |-> pid[1],
                            process_name |-> parts[1], protocol |-> protocol_of(parts),
                            state |-> state_of(parts, name),
                            local_address |-> local[1][1],
                            foreign_address |-> foreign_address_of(name)])

\* The test of the duplicate check (port.rs:38-42).
SameKey(p, q) == p.port = q.port /\ p.pid = q.pid /\ p.state = q.state

RECURSIVE collect_all(_, _, _)
\* The loop pushing every parsed line.
collect_all(lines, i, found) ==
    IF i > Len(lines) THEN found
    ELSE LET port_info == parse_lsof_line(lines[i])
         IN  collect_all(lines, i + 1,
                         IF port_info # None THEN Append(found, port_info[1]) ELSE found)

RECURSIVE collect(_, _, _)
\* The loop of get_listening_ports from line i on (port.rs:34-46).
collect(lines, i, found) ==
    IF i > Len(lines) THEN found
    ELSE LET port_info == parse_lsof_line(lines[i])
         IN  collect(lines, i + 1,
                     IF /\ port_info # None
                        /\ ~\E k \in 1..Len(found) : SameKey(found[k], port_info[1])
                     THEN Append(found, port_info[1])
                     ELSE found)

RECURSIVE sort_ties_reversed(_)
\* A sort by port that puts a record before the earlier records of its port.
sort_ties_reversed(ps) ==
    IF ps = <<>> THEN <<>>
    ELSE LET sorted == sort_ties_reversed(SubSeq(ps, 1, Len(ps) - 1))
             x == ps[Len(ps)]
             k == Cardinality({i \in 1..Len(sorted) : sorted[i].port < x.port})
         IN  SubSeq(sorted, 1, k) \o <<x>> \o SubSeq(sorted, k + 1, Len(sorted))

RECURSIVE sort_by_port(_)
\* ports.sort_by(|a, b| a.port.cmp(&b.port)): a stable sort.
sort_by_port(ps) ==
    IF ps = <<>> THEN <<>>
    ELSE LET sorted == sort_by_port(SubSeq(ps, 1, Len(ps) - 1))
             x == ps[Len(ps)]
             k == Cardinality({i \in 1..Len(sorted) : sorted[i].port <= x.port})
         IN  SubSeq(sorted, 1, k) \o <<x>> \o SubSeq(sorted, k + 1, Len(sorted))

\* get_listening_ports failing whenever the tool did not succeed.
get_listening_ports_strict(output) ==
    IF ~output.ran \/ ~output.success THEN [ok |-> FALSE, ports |-> <<>>]
    ELSE [ok |-> TRUE, ports |-> sort_by_port(collect(output.lines, 2, <<>>))]

\* get_listening_ports on what the tool gave: `ran` (it could be invoked),
\* `success` (its exit status) and `lines` (stdout.lines(), the header first).
get_listening_ports(output) ==
    IF ~output.ran THEN [ok |-> FALSE, ports |-> <<>>]
    ELSE IF ~output.success THEN [ok |-> TRUE, ports |-> <<>>]
    ELSE [ok |-> TRUE, ports |-> sort_by_port(collect(output.lines, 2, <<>>))]

RECURSIVE ToDigits(_)
\* The decimal digits of a natural number.
ToDigits(n) == IF n < 10 THEN <<Digits[n + 1]>> ELSE Append(ToDigits(n \div 10), Digits[(n % 10) + 1])

\* i32::to_string and u16::to_string.
to_string(n) == IF n < 0 THEN <<"-">> \o ToDigits(0 - n) ELSE ToDigits(n)

Uppers == <<"A", "B", "C", "D", "E", "F", "G", "H", "I", "J", "K", "L", "M",
            "N", "O", "P", "Q", "R", "S", "T", "U", "V", "W", "X", "Y", "Z">>
Lowers == <<"a", "b", "c", "d", "e", "f", "g", "h", "i", "j", "k", "l", "m",
            "n", "o", "p", "q", "r", "s", "t", "u", "v", "w", "x", "y", "z">>

\* str::to_lowercase (ASCII)
ToLower(s) ==
    [i \in 1..Len(s) |->
        IF \E k \in 1..26 : Uppers[k] = s[i]
        THEN Lowers[CHOOSE k \in 1..26 : Uppers[k] = s[i]]
        ELSE s[i]]

\* apply_filter without the adjustment of the selection.
apply_filter_keeps_selection(ps, ft, sel) ==
    LET filter_lower == ToLower(ft)
        filtered ==
            IF ft = <<>> THEN ps
            ELSE SelectSeq(ps, LAMBDA q :
                    \/ Contains(to_string(q.port), filter_lower)
                    \/ Contains(ToLower(q.process_name), filter_lower)
                    \/ Contains(to_string(q.pid), filter_lower))
    IN  [filtered_ports |-> filtered, port_selected |-> sel]

\* App::apply_filter on ports `ps`, filter text `ft` and selection `sel`: the new
\* filtered_ports and port_selected.
apply_filter(ps, ft, sel) ==
    LET filter_lower == ToLower(ft)
        filtered ==
            IF ft = <<>> THEN ps
            ELSE SelectSeq(ps, LAMBDA q :
                    \/ Contains(to_string(q.port), filter_lower)
                    \/ Contains(ToLower(q.process_name), filter_lower)
                    \/ Contains(to_string(q.pid), filter_lower))
    IN  [filtered_ports |-> filtered,
         port_selected |-> IF sel >= Len(filtered) /\ filtered # <<>>
                           THEN Len(filtered) - 1 ELSE sel]

\* The scan at startup (main.rs:29) and key 'r' or F5: App::refresh_ports.  The
\* error of a listing tool that cannot be invoked is returned by main or by
\* run_app, which ends the program.
refresh_ports ==
    /\ NormalMode
    /\ kill_cmd' = None
    /\ LET scan == get_listening_ports(listing)
           shown == apply_filter(scan.ports, filter_text, port_selected)
       IN  IF scan.ok
           THEN /\ ports' = scan.ports
                /\ filtered_ports' = shown.filtered_ports
                /\ port_selected' = shown.port_selected
                /\ status_message' = Msg("Found ports", <<>>)
                /\ pc' = pc
           ELSE /\ pc' = "exited"
                /\ UNCHANGED <<ports, filtered_ports, port_selected, status_message>>
    /\ UNCHANGED <<tunnels, file, procs, tunnel_selected, confirmVars, inputVars,
                   listing, filter_text, show_filter, current_tab>>

----
\* The confirmation dialog and the filter (app.rs, main.rs).

\* The host's listing once the process `pid` is gone: its rows are no longer
\* printed.
WithoutPid(output, pid) ==
    [output EXCEPT !.lines =
        SelectSeq(output.lines,
                  LAMBDA line : \/ parse_lsof_line(line) = None
                                \/ parse_lsof_line(line)[1].pid # pid)]

\* What `kill -9 pid` can do: it cannot be run, it exits with a failure, or it
\* ends the process.
KillOutcomes == {"not run", "failed", "killed"}

\* The command `kill -9 pid` and its outcome.
ForceKill(pid, outcome) ==
    [pid |-> pid, ran |-> outcome # "not run", alive |-> outcome = "killed", force |-> TRUE]

\* request_kill that opens the dialog over whatever action was pending.
request_kill_keeps_pending ==
    /\ NormalMode /\ port_selected < Len(filtered_ports)
    /\ show_confirm' = TRUE
    /\ kill_cmd' = None
    /\ UNCHANGED <<tunnels, file, procs, pc, tunnel_selected, status_message,
                   pending_action, inputVars>>
    /\ UNCHANGED portVars

\* Key 'K': App::request_kill.
request_kill ==
    /\ NormalMode /\ port_selected < Len(filtered_ports)
    /\ pending_action' =
          Some([kind |-> "KillProcess", pid |-> filtered_ports[port_selected + 1].pid])
    /\ show_confirm' = TRUE
    /\ kill_cmd' = None
    /\ UNCHANGED <<tunnels, file, procs, pc, tunnel_selected, status_message, inputVars>>
    /\ UNCHANGED portVars

\* Key 'y' in the confirmation dialog: App::confirm_action.  An Err (kill that
\* cannot be run, a failed refresh, a failed save) is returned by run_app, which
\* ends the program.
confirm_action ==
    /\ pc = "idle" /\ ~show_input /\ ~show_filter /\ show_confirm
    /\ show_confirm' = FALSE
    /\ pending_action' = None
    /\ IF pending_action = None
       THEN /\ kill_cmd' = None
            /\ UNCHANGED <<tunnels, file, procs, pc, tunnel_selected, status_message>>
            /\ UNCHANGED portVars
       ELSE IF pending_action[1].kind = "KillProcess"
       THEN \E outcome \in KillOutcomes :
               LET pid == pending_action[1].pid
                   host == IF outcome = "killed" THEN WithoutPid(listing, pid) ELSE listing
                   scan == get_listening_ports(host)
                   shown == apply_filter(scan.ports, filter_text, port_selected)
               IN  /\ kill_cmd' = Some(ForceKill(pid, outcome))
                   /\ listing' = host
                   /\ CASE outcome = "not run" ->
                             /\ pc' = "exited"
                             /\ UNCHANGED <<status_message, ports, filtered_ports,
                                            port_selected>>
                        [] outcome = "failed" ->
                             /\ status_message' = Msg("Failed to kill process", <<"stderr">>)
                             /\ UNCHANGED <<pc, ports, filtered_ports, port_selected>>
                        [] outcome = "killed" /\ scan.ok ->
                             /\ ports' = scan.ports
                             /\ filtered_ports' = shown.filtered_ports
                             /\ port_selected' = shown.port_selected
                             /\ status_message' = Msg("Found ports", <<>>)
                             /\ pc' = pc
                        [] OTHER ->
                             /\ status_message' = Msg("Killed process", <<>>)
                             /\ pc' = "exited"
                             /\ UNCHANGED <<ports, filtered_ports, port_selected>>
                   /\ UNCHANGED <<tunnels, file, procs, tunnel_selected, filter_text,
                                  show_filter, current_tab>>
       ELSE \E kill_ok \in BOOLEAN, save_ok \in BOOLEAN :
               LET name == pending_action[1].name
                   r == remove(tunnels, name, kill_ok)
               IN  /\ tunnels' = r.tunnels
                   /\ kill_cmd' = r.kill
                   /\ procs' = AfterKill(procs, r.kill)
                   /\ IF save_ok
                      THEN /\ file' = save(r.tunnels)
                           /\ status_message' = Msg("Deleted tunnel", <<>>)
                           /\ tunnel_selected' =
                                IF tunnel_selected >= Len(r.tunnels) /\ r.tunnels # <<>>
                                THEN Len(r.tunnels) - 1
                                ELSE tunnel_selected
                           /\ pc' = "idle"
                      ELSE /\ pc' = "exited"
                           /\ UNCHANGED <<file, status_message, tunnel_selected>>
                   /\ UNCHANGED portVars
    /\ UNCHANGED inputVars

\* Key 'n' or Esc in the confirmation dialog (main.rs): the dialog closes and
\* pending_action is left as it is.
decline_confirm ==
    /\ pc = "idle" /\ ~show_input /\ ~show_filter /\ show_confirm
    /\ show_confirm' = FALSE
    /\ kill_cmd' = None
    /\ UNCHANGED <<tunnels, file, procs, pc, tunnel_selected, status_message,
                   pending_action, inputVars>>
    /\ UNCHANGED portVars

\* Keys Tab and BackTab: App::next_tab and App::prev_tab.
next_tab ==
    /\ NormalMode
    /\ current_tab' = IF current_tab = "Ports" THEN "Tunnels" ELSE "Ports"
    /\ kill_cmd' = None
    /\ UNCHANGED <<tunnels, file, procs, pc, tunnel_selected, status_message, confirmVars,
                   inputVars, listing, ports, filtered_ports, port_selected, filter_text,
                   show_filter>>

\* Keys '1' and '2' (main.rs:118-119).
goto_tab(tab) ==
    /\ NormalMode
    /\ current_tab' = tab
    /\ kill_cmd' = None
    /\ UNCHANGED <<tunnels, file, procs, pc, tunnel_selected, status_message, confirmVars,
                   inputVars, listing, ports, filtered_ports, port_selected, filter_text,
                   show_filter>>

\* The filter's text becomes `text` and App::apply_filter runs.
FilterBecomes(text) ==
    LET shown == apply_filter(ports, text, port_selected)
    IN  /\ filter_text' = text
        /\ filtered_ports' = shown.filtered_ports
        /\ port_selected' = shown.port_selected
        /\ kill_cmd' = None
        /\ UNCHANGED <<tunnels, file, procs, pc, tunnel_selected, status_message,
                       confirmVars, inputVars, listing, ports, show_filter, current_tab>>

\* The characters typed into the filter.
FilterChars == {"n", "S", "7"}

\* Key '/' handled ahead of the dialogs.
open_filter_in_dialog ==
    /\ pc = "idle"
    /\ show_filter' = TRUE
    /\ filter_text' = <<>>
    /\ kill_cmd' = None
    /\ UNCHANGED <<tunnels, file, procs, pc, tunnel_selected, status_message, confirmVars,
                   inputVars, listing, ports, filtered_ports, port_selected, current_tab>>

\* Key '/' (main.rs:129-132): the filter opens and its text is cleared.
open_filter ==
    /\ NormalMode
    /\ show_filter' = TRUE
    /\ filter_text' = <<>>
    /\ kill_cmd' = None
    /\ UNCHANGED <<tunnels, file, procs, pc, tunnel_selected, status_message, confirmVars,
                   inputVars, listing, ports, filtered_ports, port_selected, current_tab>>

\* A character key in the filter: filter_text.push(c), apply_filter().
filter_push(c) ==
    /\ pc = "idle" /\ ~show_input /\ show_filter
    /\ Len(filter_text) < MaxFilter
    /\ FilterBecomes(Append(filter_text, c))

\* Backspace in the filter: filter_text.pop(), apply_filter().
filter_pop ==
    /\ pc = "idle" /\ ~show_input /\ show_filter
    /\ FilterBecomes(SubSeq(filter_text, 1, Len(filter_text) - 1))

\* Enter or Esc in the filter: it closes.
close_filter ==
    /\ pc = "idle" /\ ~show_input /\ show_filter
    /\ show_filter' = FALSE
    /\ kill_cmd' = None
    /\ UNCHANGED <<tunnels, file, procs, pc, tunnel_selected, status_message, confirmVars,
                   inputVars, listing, ports, filtered_ports, port_selected, filter_text,
                   current_tab>>

\* Esc in normal mode: filter_text.clear(), apply_filter().
clear_filter ==
    /\ NormalMode
    /\ FilterBecomes(<<>>)

----
\* The listing tool's output.

RECURSIVE SeqsUpTo(_, _)
\* The sequences over S of length at most n.
SeqsUpTo(S, n) ==
    IF n = 0 THEN {<<>>}
    ELSE LET shorter == SeqsUpTo(S, n - 1)
         IN  shorter \cup {Append(s, x) : s \in shorter, x \in S}

RECURSIVE Join(_)
\* The fields, one blank between two.
Join(fields) ==
    IF Len(fields) = 1 THEN fields[1]
    ELSE Join(SubSeq(fields, 1, Len(fields) - 1)) \o <<" ">> \o fields[Len(fields)]

\* lsof's header: COMMAND PID USER FD TYPE DEVICE SIZE/OFF NODE NAME, the column
\* names cut to their first letter.
HeaderLine ==
    Join(<<Str("C"), Str("P"), Str("U"), Str("F"), Str("T"), Str("D"), Str("S"),
           Str("N"), Str("N")>>)

\* The eight columns before NAME of a TCP socket of command `cmd`, pid `pid`.
Columns(cmd, pid) == <<cmd, pid, Str("u"), Str("3"), Str("4"), Str("d"), Str("0"), TCP>>

\* A row whose NAME column is `name`.
Row(cmd, pid, name) == Join(Append(Columns(cmd, pid), name))

NameNc == <<"n", "c">>
NameSsh == <<"s", "s", "h">>
AnyPort2 == <<"*", ":", "2">>
Loopback6Port2 == <<"[", ":", ":", "1", "]", ":", "2">>
Connection == <<"a", ":", "1", "-", ">", "b", ":", "2">>

\* The lines the tool prints after its header: well-formed rows, rows that share
\* a port or a dedup key, and malformed lines.
LsofLines ==
    {Row(NameNc, Str("7"), AnyPort2),
     Row(NameSsh, Str("7"), Loopback6Port2),
     \* blanks before the first field, a tab between two, and a tenth column
     <<" ">> \o Join(<<NameNc, <<"\t">>, Str("8")>>) \o <<" ">>
        \o Join(Tail(Tail(Columns(NameNc, Str("8")))) \o <<Str("x"), AnyPort2>>),
     \* an established connection, its local address with two colons
     Row(NameNc, Str("7"), <<"a", ":", "b", ":", "6", "5", "5", "3", "5", "-", ">", "b", ":", "2">>),
     Row(NameNc, Str("9"), Connection \o <<"-", ">", "c", ":", "3">>),
     Row(NameNc, Str("7"), <<"*", ":", "3", "(">> \o LISTEN \o <<")">>),
     \* eight fields
     Join(Columns(NameNc, Str("7"))),
     Row(NameNc, Str("x"), AnyPort2),
     Row(NameNc, Str("7"), <<"[", ":", ":", "1", "]", "x", "2">>),
     Row(NameNc, Str("7"), <<"*", ":", "6", "5", "5", "3", "6">>)}

\* What the tool can give: it cannot be invoked; it runs and fails, with or
\* without output; it succeeds and prints the header and at most MaxLines lines.
ListingOutputs ==
    {[ran |-> FALSE, success |-> FALSE, lines |-> <<>>]}
    \cup {[ran |-> TRUE, success |-> FALSE, lines |-> ls] :
            ls \in {<<>>} \cup {<<HeaderLine, l>> : l \in LsofLines}}
    \cup {[ran |-> TRUE, success |-> TRUE, lines |-> ls] :
            ls \in {<<>>} \cup {<<HeaderLine>> \o body : body \in SeqsUpTo(LsofLines, MaxLines)}}

\* Rows whose fields carry the words the state is inferred from: in the command,
\* in the USER column, in the column before NAME and in NAME itself, with and
\* without an arrow.
StateRows ==
    {Join(<<cmd, Str("7"), user, Str("3"), Str("4"), Str("d"), Str("0"), node, name>>) :
        cmd \in {NameNc, <<"x">> \o LISTEN \o <<"x">>},
        user \in {Str("u"), LISTEN, ESTABLISHED},
        node \in {TCP, LISTEN, ESTABLISHED},
        name \in {AnyPort2,
                  AnyPort2 \o <<"(">> \o LISTEN \o <<")">>,
                  AnyPort2 \o <<"(">> \o ESTABLISHED \o <<")">>,
                  Connection,
                  <<"a", ":", "1", "(">> \o LISTEN \o <<")", "-", ">", "b", ":", "2">>}}

\* The tool succeeds and prints its header and one of these rows.
StateListings ==
    {[ran |-> TRUE, success |-> TRUE, lines |-> <<HeaderLine, row>>] : row \in StateRows}

\* A host with no socket to list.
NoSockets == [ran |-> TRUE, success |-> TRUE, lines |-> <<HeaderLine>>]

----
\* Startup.

\* The registry files this program writes over the names `names`: every save
\* follows an add or a remove, so the names are distinct and none is empty.
RegistryFiles(names) ==
    LET defs == [name : names, ssh_host : {<<"h">>}, local_port : Ports,
                 remote_target : {<<"r">>}]
    IN  {None} \cup
        {Some(ds) : ds \in {s \in SeqsUpTo(defs, Cardinality(names)) :
                              \A i, j \in 1..Len(s) : i # j => s[i].name # s[j].name}}

\* The process tables: at most one process per pid.
ProcTables ==
    {table \in SUBSET [pid : Pids, cmd : Cmds, port : Ports] :
        \A p, q \in table : p.pid = q.pid => p = q}

\* App::new (TunnelManager::load and the fields' first values) on a host whose
\* process table is one of `tables` and whose registry file is one of `files`,
\* with the tab `tab` open: App::new opens the Ports tab, key '2' the Tunnels tab.
InitOn(tables, files, listings, tab) ==
    /\ current_tab = tab
    /\ show_filter = FALSE
    /\ listing \in listings
    /\ ports = <<>>
    /\ filtered_ports = <<>>
    /\ port_selected = 0
    /\ filter_text = <<>>
    /\ file \in files
    /\ procs \in tables
    /\ tunnels = load(file, procs)
    /\ pc = "idle"
    /\ tunnel_selected = 0
    /\ status_message = Msg("Press ? for help", <<>>)
    /\ show_confirm = FALSE
    /\ pending_action = None
    /\ show_input = FALSE
    /\ input_mode = "None"
    /\ input_buffer = <<>>
    /\ new_tunnel = None
    /\ kill_cmd = None

\* The lifecycle specification starts from the registries over two names, on
\* the Tunnels tab.
LoadedNames == {Str(NameChars[1]), Str(NameChars[2])}

Init == InitOn(ProcTables, RegistryFiles(LoadedNames), {NoSockets}, "Tunnels")

\* The tunnels' life on a host whose processes come and go.
Next ==
    \/ \E pid \in Pids, cmd \in Cmds, port \in Ports : ProcStart(pid, cmd, port)
    \/ \E pid \in Pids : ProcExit(pid)
    \/ connect_tunnel
    \/ connect_settle
    \/ connect_record
    \/ connect_wait
    \/ disconnect_tunnel
    \/ request_delete_tunnel
    \/ confirm_action
    \/ select_next
    \/ select_prev

Spec == Init /\ [][Next]_vars

\* The registry under the user's edits on the Tunnels tab, on a host with no TCP
\* process.
InitRegistry == InitOn({{}}, RegistryFiles(Names), {NoSockets}, "Tunnels")

NextRegistry ==
    \/ start_add_tunnel
    \/ type_input
    \/ submit_input
    \/ cancel_input
    \/ request_delete_tunnel
    \/ confirm_action
    \/ decline_confirm
    \/ select_next
    \/ select_prev

SpecRegistry == InitRegistry /\ [][NextRegistry]_vars

\* The port scan, on a host with no registry file and whatever listing.
InitPorts == InitOn({{}}, {None}, ListingOutputs, "Ports")

NextPorts == refresh_ports

SpecPorts == InitPorts /\ [][NextPorts]_vars

\* The port scan of one row, for the inference of the state.
InitStates == InitOn({{}}, {None}, StateListings, "Ports")

SpecStates == InitStates /\ [][NextPorts]_vars

\* A host with two sockets, of nc (pid 7) and of ssh (pid 8).
TwoSockets ==
    [ran |-> TRUE, success |-> TRUE,
     lines |-> <<HeaderLine, Row(NameNc, Str("7"), AnyPort2),
                 Row(NameSsh, Str("8"), Loopback6Port2)>>]

\* A registry file with two definitions.
TwoTunnels ==
    Some(<<[name |-> Str(NameChars[1]), ssh_host |-> <<"h">>, local_port |-> 1,
            remote_target |-> <<"r">>],
           [name |-> Str(NameChars[2]), ssh_host |-> <<"h">>, local_port |-> 2,
            remote_target |-> <<"r">>]>>)

\* main up to the event loop (main.rs:26-29): App::new, then the startup scan,
\* on a host with two sockets, no ssh tunnel process and two tunnels defined.
InitUI ==
    /\ current_tab = "Ports"
    /\ show_filter = FALSE
    /\ listing = TwoSockets
    /\ ports = get_listening_ports(listing).ports
    /\ filtered_ports = ports
    /\ port_selected = 0
    /\ filter_text = <<>>
    /\ file = TwoTunnels
    /\ procs = {}
    /\ tunnels = load(file, procs)
    /\ pc = "idle"
    /\ tunnel_selected = 0
    /\ status_message = Msg("Found ports", <<>>)
    /\ show_confirm = FALSE
    /\ pending_action = None
    /\ show_input = FALSE
    /\ input_mode = "None"
    /\ input_buffer = <<>>
    /\ new_tunnel = None
    /\ kill_cmd = None

\* The keys of the two tabs and of the three dialogs; the input dialog is
\* opened and cancelled.
NextUI ==
    \/ next_tab
    \/ \E tab \in {"Ports", "Tunnels"} : goto_tab(tab)
    \/ select_next
    \/ select_prev
    \/ select_first
    \/ select_last
    \/ refresh_ports
    \/ open_filter
    \/ \E c \in FilterChars : filter_push(c)
    \/ filter_pop
    \/ close_filter
    \/ clear_filter
    \/ request_kill
    \/ request_delete_tunnel
    \/ confirm_action
    \/ decline_confirm
    \/ start_add_tunnel
    \/ cancel_input
    \/ connect_tunnel
    \/ connect_settle
    \/ connect_wait
    \/ disconnect_tunnel
    \/ quit

SpecUI == InitUI /\ [][NextUI]_vars

\* The registry as loaded at startup, while the host's processes come and go,
\* until the user quits.
NextHost ==
    \/ \E pid \in Pids, cmd \in Cmds, port \in Ports : ProcStart(pid, cmd, port)
    \/ \E pid \in Pids : ProcExit(pid)
    \/ quit

SpecHost == Init /\ [][NextHost]_vars

----
\* Properties.

TunnelAt(i) == tunnels[i]
CachedPids == {None} \cup {Some(p) : p \in Pids}

\* The listing tool, asked about `port`, prints a row (after its header) whose
\* command name is ssh.
SshRowReported(port) ==
    LET out == lsof_tcp(procs, port)
    IN  out.ran /\ \E i \in 2..Len(out.lines) : out.lines[i][1] = "ssh"

\* The pids of the ssh processes with a socket on `port`.
SshPidsOn(table, port) == {p.pid : p \in {q \in table : q.cmd = "ssh" /\ q.port = port}}

\* C1: in every reachable state a tunnel's is_connected is true exactly when the
\* listing tool, asked now about the tunnel's local_port, reports an ssh row; the
\* answer is the same whatever pid the tunnel has cached, and a tool that cannot
\* be run gives Disconnected.
C1_StatusDerivedFromHost ==
    /\ \A i \in 1..Len(tunnels) :
          LET derived == is_connected(TunnelAt(i))
          IN  /\ derived <=> SshRowReported(TunnelAt(i).local_port)
              /\ \A c \in CachedPids :
                    is_connected([TunnelAt(i) EXCEPT !.process = c]) = derived
    /\ find_ssh_pid_in(LsofUnavailable) = None

\* C1's case: a tunnel whose cached pid is set while no ssh row is reported (the
\* cache is stale and the status is Disconnected), and one Connected with no
\* cached pid.
C1_Witness ==
    /\ \E i \in 1..Len(tunnels) :
          TunnelAt(i).process # None /\ ~is_connected(TunnelAt(i))
    /\ \E i \in 1..Len(tunnels) :
          TunnelAt(i).process = None /\ is_connected(TunnelAt(i))

\* C2: a connect request for a tunnel whose derived status is Connected spawns no
\* ssh client (the handler is back in the event loop), leaves every recorded pid
\* and the host as they were, and reports "already connected", not a failure.
C2_ConnectRefusesWhenConnected ==
    [][(connect_tunnel /\ is_connected(Selected))
         => /\ pc' = "idle"
            /\ tunnels' = tunnels
            /\ procs' = procs
            /\ status_message' = Msg("Tunnel is already connected", <<>>)]_vars

\* C2's case: the refusal was just reported for a Connected tunnel.
C2_Witness ==
    /\ pc = "idle" /\ HasSelected /\ is_connected(Selected)
    /\ status_message = Msg("Tunnel is already connected", <<>>)

\* C3 (as claimed): when connect fails after the settle delay, the error carries
\* the client's stderr, no pid is recorded for the tunnel, and the tunnel is
\* Disconnected when the failure is returned.
C3_FailedConnectLeavesDisconnected ==
    [][connect_wait
         => /\ status_message'.text = "Failed to connect"
            /\ status_message'.error \in WaitOutcomes
            /\ Selected'.process = None
            /\ ~is_connected(Selected)']_vars

\* C4 (as claimed): whenever connect returns success the recorded pid is set and
\* is the pid of an ssh process on the tunnel's local_port.
C4_SuccessRecordsSshPid ==
    [][connect_record
         => /\ status_message' = Msg("Connected tunnel", <<>>)
            /\ Selected'.process # None
            /\ Selected'.process[1] \in SshPidsOn(procs', Selected.local_port)]_vars

\* The pid disconnect signals: the recorded one, else the one a lookup finds.
DisconnectTarget(t) == IF t.process # None THEN t.process ELSE find_ssh_pid(t)

\* The kill command `k` is the one disconnect issues for tunnel `t`.
KillIssuedFor(t, k) ==
    IF DisconnectTarget(t) = None THEN k = None
    ELSE k # None /\ k[1].pid = DisconnectTarget(t)[1]

\* The entry a confirmed DeleteTunnel disconnects (0: none).
DeletedIndex ==
    IF pending_action # None THEN FindByName(tunnels, pending_action[1].name) ELSE 0

\* C5 (amended): disconnect issues kill for the recorded pid if one is recorded,
\* otherwise for the pid a lookup finds (if any).  When the kill command runs,
\* whether or not the process still exists, disconnect succeeds and the recorded
\* pid is absent; when kill cannot be run, disconnect fails and the recorded pid
\* is as it was.
C5_DisconnectSignalsAndClears ==
    [][/\ (disconnect_tunnel /\ is_connected(Selected))
            => /\ KillIssuedFor(Selected, kill_cmd')
               /\ kill_cmd' # None
               /\ kill_cmd'[1].ran
                    => /\ status_message' = Msg("Disconnected tunnel", <<>>)
                       /\ Selected'.process = None
               /\ ~kill_cmd'[1].ran
                    => /\ status_message' = Msg("Failed to disconnect", IoError("kill"))
                       /\ tunnels' = tunnels
       /\ (confirm_action /\ DeletedIndex # 0)
            => KillIssuedFor(TunnelAt(DeletedIndex), kill_cmd')]_vars

\* C5's case: disconnect ran kill for a recorded pid no process had any more (the
\* tunnel's ssh process is another one, so it is still Connected), succeeded and
\* cleared the pid.
C5_Witness ==
    /\ pc = "idle" /\ HasSelected
    /\ status_message = Msg("Disconnected tunnel", <<>>)
    /\ kill_cmd # None /\ kill_cmd[1].ran /\ ~kill_cmd[1].alive
    /\ Selected.process = None
    /\ is_connected(Selected)

\* C5 (as claimed): disconnect signals the recorded pid, else the pid a lookup
\* finds; on either path the recorded pid is absent after disconnect returns; a
\* kill command that ran for a process already gone is not reported as an error.
C5_PidAbsentAfterDisconnect ==
    [][(disconnect_tunnel /\ is_connected(Selected))
         => /\ KillIssuedFor(Selected, kill_cmd')
            /\ Selected'.process = None
            /\ (kill_cmd' # None /\ kill_cmd'[1].ran /\ ~kill_cmd'[1].alive)
                 => status_message' = Msg("Disconnected tunnel", <<>>)]_vars

\* The kill command `k` delivered a signal to a process.
Signalled(k) == k # None /\ k[1].ran /\ k[1].alive

\* C6 (as claimed): disconnect on a tunnel whose derived status is Disconnected,
\* whatever pid it has recorded, signals no process, leaves it Disconnected and
\* does not fail: from the 'd' key and from remove.
C6_DisconnectIdempotent ==
    [][/\ (disconnect_tunnel /\ ~is_connected(Selected))
            => /\ ~Signalled(kill_cmd')
               /\ ~is_connected(Selected)'
               /\ status_message'.text # "Failed to disconnect"
       /\ (confirm_action /\ DeletedIndex # 0 /\ ~is_connected(TunnelAt(DeletedIndex)))
            => ~Signalled(kill_cmd')]_vars

\* C7 (as claimed): removing a tunnel whose derived status is Connected issues a
\* kill command which, when it can be run, signals an ssh process on the tunnel's
\* local_port; the entry leaves the registry whether or not the command ran, and
\* the registry is persisted when the program goes on.
C7_RemoveForcesDisconnect ==
    [][(confirm_action /\ DeletedIndex # 0 /\ is_connected(TunnelAt(DeletedIndex)))
         => /\ kill_cmd' # None
            /\ kill_cmd'[1].ran
                 => kill_cmd'[1].pid \in SshPidsOn(procs, TunnelAt(DeletedIndex).local_port)
            /\ \A i \in 1..Len(tunnels') : tunnels'[i].name # pending_action[1].name
            /\ pc' = "idle" => file' = Some(to_json(tunnels'))]_vars

\* The step is the fourth submit of the input dialog, the one that calls add.
IsAddStep ==
    /\ submit_input
    /\ input_mode = "TunnelRemotePort" /\ new_tunnel # None /\ Trim(input_buffer) # <<>>

\* The definition that step adds.
AddedDefinition == [new_tunnel[1] EXCEPT !.remote_target = Trim(input_buffer)]

\* The step is a confirmed DeleteTunnel, the one that calls remove.
IsRemoveStep == confirm_action /\ pending_action # None

NamedAs(ts, name) == {i \in 1..Len(ts) : ts[i].name = name}

\* C8: after add(d) exactly one entry has d's name, it is d, it is the last
\* entry, and the entries with other names are the ones there were, in the order
\* they were in.
C8_AddReplacesByName ==
    [][IsAddStep
         => LET d == AddedDefinition
                before == SelectSeq(tunnels, LAMBDA t : t.name # d.name)
                after == SelectSeq(tunnels', LAMBDA t : t.name # d.name)
            IN  /\ Cardinality(NamedAs(tunnels', d.name)) = 1
                /\ tunnels'[Len(tunnels')] = d
                /\ after = before
                /\ Len(tunnels') = Len(before) + 1]_vars

\* C8's case: an add replaced the first of three entries: the registry file, not
\* yet rewritten when the save fails, still has the name first, the list has it
\* last with another port, and the two others kept their order.
C8_Witness ==
    /\ pc = "exited" /\ new_tunnel # None /\ file # None
    /\ Len(tunnels) = 3 /\ Len(file[1]) = 3
    /\ file[1][1].name = new_tunnel[1].name
    /\ tunnels[3] = new_tunnel[1]
    /\ tunnels[3].local_port # file[1][1].local_port
    /\ Serialize(tunnels[1]) = file[1][2] /\ Serialize(tunnels[2]) = file[1][3]

C10_FlushedAfterAddAndRemove ==
    [][((IsAddStep \/ IsRemoveStep) /\ pc' # "exited")
         => /\ file' # None
            /\ Len(file'[1]) = Len(tunnels')
            /\ \A i \in 1..Len(tunnels') :
                  /\ file'[1][i].name = tunnels'[i].name
                  /\ file'[1][i].ssh_host = tunnels'[i].ssh_host
                  /\ file'[1][i].local_port = tunnels'[i].local_port
                  /\ file'[1][i].remote_target = tunnels'[i].remote_target]_vars

\* C10's case: a remove emptied a registry that was loaded from a file, and the
\* file now holds the empty list.
C10_Witness ==
    /\ pc = "idle" /\ status_message = Msg("Deleted tunnel", <<>>)
    /\ tunnels = <<>> /\ file = Some(<<>>)

\* C11: the registry saved from the in-memory list and loaded again has the same
\* definitions (name, ssh endpoint, local port, remote target) in the same order;
\* the file has no pid field, and each loaded definition's recorded pid is the
\* one a process lookup gives now, whatever pid the saved definition had.
C11_SaveLoadRoundTrip ==
    LET written == save(tunnels)
        reloaded == load(written, procs)
    IN  /\ written # None
        /\ Len(written[1]) = Len(tunnels)
        /\ Len(reloaded) = Len(tunnels)
        /\ \A i \in 1..Len(tunnels) :
              /\ DOMAIN written[1][i] = {"name", "ssh_host", "local_port", "remote_target"}
              /\ reloaded[i].name = tunnels[i].name
              /\ reloaded[i].ssh_host = tunnels[i].ssh_host
              /\ reloaded[i].local_port = tunnels[i].local_port
              /\ reloaded[i].remote_target = tunnels[i].remote_target
              /\ reloaded[i].process = find_ssh_pid(tunnels[i])

\* C11's case: a registry of two definitions on different ports, the first with a
\* recorded pid that no lookup gives any more, the second with none recorded
\* while an ssh process holds its port: a reload changes both pids.
C11_Witness ==
    /\ Len(tunnels) = 2
    /\ tunnels[1].local_port # tunnels[2].local_port
    /\ tunnels[1].process # None /\ find_ssh_pid(tunnels[1]) = None
    /\ tunnels[2].process = None /\ find_ssh_pid(tunnels[2]) # None

\* The text is a decimal integer in 0..65535.
IsPortText(s) ==
    LET body == IF s # <<>> /\ Head(s) = "+" THEN Tail(s) ELSE s
    IN  /\ body # <<>>
        /\ \A i \in 1..Len(body) : IsDigit(body[i])
        /\ DecimalValue(body, 0) \in 0..U16Max

\* The registry after the step has a definition it did not have before.
DefinitionEnters ==
    \E i \in 1..Len(tunnels') : \A j \in 1..Len(tunnels) : tunnels'[i] # tunnels[j]

\* The submitted text is refused at the current step of the input dialog.
SubmissionRefused ==
    \/ Trim(input_buffer) = <<>>
    \/ input_mode = "TunnelLocalPort" /\ ~IsPortText(Trim(input_buffer))

\* C12: a definition enters the registry only on the submission of the fourth
\* input step, and it is the pending definition with the submitted remote
\* target: its name and endpoint non-empty, its local port in 0..65535.  The
\* dialog's steps advance only in the order name, endpoint, local port, remote
\* target, each on a submission that is not refused.  A refused submission (empty
\* text, or a local port that is not an integer in 0..65535) leaves the step, the
\* pending definition and the registry as they were, and so does a cancel for the
\* registry.
C12_AddOnlyThroughFourSteps ==
    [][/\ (tunnels' # tunnels /\ DefinitionEnters)
            => /\ IsAddStep
               /\ tunnels'[Len(tunnels')] = AddedDefinition
               /\ AddedDefinition.name # <<>>
               /\ AddedDefinition.ssh_host # <<>>
               /\ AddedDefinition.local_port \in 0..U16Max
               /\ AddedDefinition.remote_target # <<>>
       /\ input_mode' # input_mode
            => \/ start_add_tunnel /\ input_mode' = "TunnelName"
               \/ cancel_input /\ input_mode' = "None"
               \/ /\ submit_input /\ ~SubmissionRefused /\ new_tunnel # None
                  /\ <<input_mode, input_mode'>> \in
                        {<<"TunnelName", "TunnelHost">>,
                         <<"TunnelHost", "TunnelLocalPort">>,
                         <<"TunnelLocalPort", "TunnelRemotePort">>,
                         <<"TunnelRemotePort", "None">>}
                  /\ input_mode = "TunnelName" => new_tunnel'[1].name = Trim(input_buffer)
                  /\ input_mode = "TunnelHost" => new_tunnel'[1].ssh_host = Trim(input_buffer)
                  /\ input_mode = "TunnelLocalPort"
                       => Some(new_tunnel'[1].local_port) = ParseU16(Trim(input_buffer))
       /\ ~UNCHANGED <<input_mode, new_tunnel, show_input, tunnels, file>>
            => ~(submit_input /\ SubmissionRefused)
       /\ ~UNCHANGED <<tunnels, file>> => ~cancel_input]_vars

\* C12's case: the fourth step was submitted on an empty registry: the dialog is
\* closed with the remote target still in the buffer, and the registry and its
\* file hold the new definition, with the name and the local port submitted.
C12_Witness ==
    /\ pc = "idle" /\ ~show_input /\ input_mode = "None" /\ new_tunnel = None
    /\ input_buffer = <<"r">>
    /\ status_message = Msg("Added tunnel", <<>>)
    /\ Len(tunnels) = 1 /\ file = Some(to_json(tunnels))
    /\ tunnels[1].name # <<>> /\ tunnels[1].local_port = 2

\* C13 (as claimed): no operation ends the program: after a port refresh, a
\* submission of the input dialog, a confirmed action, a connect or a disconnect,
\* whether it failed or not, the program is still running.
C13_NoOperationEndsProgram ==
    [][(refresh_ports \/ submit_input \/ confirm_action \/ connect_tunnel \/ disconnect_tunnel)
         => pc' # "exited"]_vars

\* The last scan succeeded: `ports` is what get_listening_ports gave for `listing`.
Scanned == status_message = Msg("Found ports", <<>>)

\* The dedup key of a record.
Key(p) == <<p.port, p.pid, p.state>>

\* The lines of the listing after the header, as indexes.
ListedLines == 2..Len(listing.lines)

\* What each listed line parses to.
Records == [k \in ListedLines |-> parse_lsof_line(listing.lines[k])]

\* The lines of `recs` that parse to a record.
ParsedIn(recs) == {k \in DOMAIN recs : recs[k] # None}

\* The earliest line of `recs` whose record has the key of `p`.
EarliestIn(recs, p) ==
    CHOOSE k \in ParsedIn(recs) :
        /\ Key(recs[k][1]) = Key(p)
        /\ \A j \in ParsedIn(recs) : Key(recs[j][1]) = Key(p) => k <= j

\* The lines of the listing that parse to a record.
ParsedLines == ParsedIn(Records)

\* The record line k parses to.
RecordOf(k) == parse_lsof_line(listing.lines[k])[1]

\* The earliest line whose record has the key of `p`.
EarliestWithKey(p) == EarliestIn(Records, p)

\* C14: the result of a scan has no two records with the same (port, pid, state);
\* when the tool succeeded every parsed line's triple is in the result, and the
\* record kept for a triple is the one of the earliest line that has it.
C14_NoDuplicateKey ==
    Scanned =>
        LET recs == Records
        IN  /\ \A i, j \in 1..Len(ports) : Key(ports[i]) = Key(ports[j]) => i = j
            /\ listing.success
                 => \A k \in ParsedIn(recs) :
                       \E i \in 1..Len(ports) : Key(ports[i]) = Key(recs[k][1])
            /\ \A i \in 1..Len(ports) :
                  /\ \E k \in ParsedIn(recs) : Key(recs[k][1]) = Key(ports[i])
                  /\ ports[i] = recs[EarliestIn(recs, ports[i])][1]

\* C14's case: two lines with the same triple and different commands were
\* listed, the ssh one first, and the scan kept one record, the ssh one.
C14_Witness ==
    /\ Scanned /\ Len(ports) = 1 /\ ports[1].process_name = NameSsh
    /\ \E k \in ParsedLines :
          /\ RecordOf(k).process_name = NameNc
          /\ Key(RecordOf(k)) = Key(ports[1])
          /\ EarliestWithKey(ports[1]) < k

\* C15: the result of a scan is non-decreasing in port, and two records of the
\* same port are in the order in which their lines were first seen.
C15_SortedByPortStable ==
    Scanned =>
        LET recs == Records
        IN  \A i, j \in 1..Len(ports) :
                i < j => /\ ports[i].port <= ports[j].port
                         /\ ports[i].port = ports[j].port
                              => EarliestIn(recs, ports[i]) < EarliestIn(recs, ports[j])

\* C15's case: three records from three lines, the line of the smallest port
\* listed last and sorted first, the two others of one port kept in line order
\* although their pids are in the other order.
C15_Witness ==
    /\ Scanned /\ Len(ports) = 3 /\ Len(listing.lines) = 4
    /\ ports[1].port < ports[2].port /\ ports[2].port = ports[3].port
    /\ ports[2].pid > ports[3].pid
    /\ ports[1] = RecordOf(4) /\ ports[2] = RecordOf(2) /\ ports[3] = RecordOf(3)

\* C16: get_listening_ports fails exactly when the listing tool cannot be
\* invoked; when the tool runs and exits with a failure the result is Ok with no
\* record, whatever it printed; when it prints only its header the result is Ok
\* with no record.  A failed scan ends refresh_ports with the error, any other
\* scan stores its result.
C16_ErrorOnlyWhenToolCannotRun ==
    LET scan == get_listening_ports(listing)
    IN  /\ scan.ok <=> listing.ran
        /\ (listing.ran /\ ~listing.success) => scan.ports = <<>>
        /\ (listing.ran /\ Len(listing.lines) <= 1) => scan.ports = <<>>
        /\ Scanned => listing.ran /\ ports = scan.ports

\* C16's case: the tool ran, printed a line that parses and exited with a
\* failure: the scan succeeded with no record.
C16_Witness ==
    /\ Scanned /\ pc = "idle" /\ ports = <<>>
    /\ listing.ran /\ ~listing.success
    /\ ParsedLines # {}

\* The text of the NAME column that holds the local address: the last field, up
\* to its first arrow if it has one.
LocalText(parts) ==
    LET name == parts[Len(parts)]
    IN  IF Contains(name, Arrow) THEN SubSeq(name, 1, Find(name, Arrow)[1]) ELSE name

\* The offsets parse_address_port slices `addr` at are inside it: the bracket's
\* end is after the opening bracket, the last colon is before the end.
SlicesInRange(addr) ==
    /\ (addr # <<>> /\ Head(addr) = "[" /\ Find(addr, <<"]">>) # None)
         => Find(addr, <<"]">>)[1] \in 1..(Len(addr) - 1)
    /\ RFind(addr, <<":">>) # None => RFind(addr, <<":">>)[1] + 1 <= Len(addr)

\* C17 (amended): parse_lsof_line is total: on every line a scan reads it gives None or a
\* record, reading no field and no slice out of range; on a line of 9 fields or
\* more whose second field is an integer pid and whose trailing address parses it
\* gives a record, with that command, that pid and a port in 0..65535.
C17_ParseLineTotal ==
    Scanned =>
        \A k \in ListedLines :
            LET line == listing.lines[k]
                parts == split_whitespace(line)
                parsed == parse_lsof_line(line)
                pid == ParseI32(parts[2])
                addr == LocalText(parts)
            IN  /\ Len(parsed) <= 1
                /\ parsed # None => {1, 2, 5, 8} \subseteq DOMAIN parts
                /\ Len(parts) >= 9 => SlicesInRange(addr)
                /\ (Len(parts) >= 9 /\ pid # None /\ parse_address_port(addr) # None)
                     => /\ parsed # None
                        /\ parsed[1].process_name = parts[1]
                        /\ Some(parsed[1].pid) = pid
                        /\ parsed[1].port \in 0..U16Max

\* C17's case: a scan of two lines that parse, one of ten fields and one whose
\* port is 65535.
C17_Witness ==
    /\ Scanned /\ Len(ports) = 2 /\ Len(listing.lines) = 3
    /\ ports[2].port = U16Max
    /\ \E k \in ListedLines :
          Len(split_whitespace(listing.lines[k])) = 10 /\ RecordOf(k) = ports[1]

\* C17 (as claimed): every line a scan reads of 9 fields or more with a parseable trailing
\* address gives a record whose port is in 0..65535.
C17_RecordForEveryAddressedLine ==
    Scanned =>
        \A k \in ListedLines :
            LET parts == split_whitespace(listing.lines[k])
                parsed == parse_lsof_line(listing.lines[k])
            IN  (Len(parts) >= 9 /\ parse_address_port(LocalText(parts)) # None)
                    => parsed # None /\ parsed[1].port \in 0..U16Max

\* The bracketed grammar `[addr]:port`: the port is directly after `]:`.
MatchesBracketed(addr) ==
    /\ addr # <<>> /\ Head(addr) = "["
    /\ \E e \in 2..(Len(addr) - 2) :
          /\ addr[e] = "]" /\ \A i \in 1..(e - 1) : addr[i] # "]"
          /\ addr[e + 1] = ":"
          /\ IsPortText(SubSeq(addr, e + 2, Len(addr)))

\* The unbracketed grammar `host:port`, split at the last colon, the port with an
\* optional suffix that starts at `(`.
MatchesUnbracketed(addr) ==
    /\ addr = <<>> \/ Head(addr) # "["
    /\ \E c \in 1..Len(addr) :
          /\ addr[c] = ":" /\ \A i \in (c + 1)..Len(addr) : addr[i] # ":"
          /\ \E stop \in (c + 1)..(Len(addr) + 1) :
                /\ stop <= Len(addr) => addr[stop] = "("
                /\ \A i \in (c + 1)..(stop - 1) : addr[i] # "("
                /\ IsPortText(SubSeq(addr, c + 1, stop - 1))

\* The listing without its line k.
WithoutLine(k) ==
    [listing EXCEPT !.lines = SubSeq(listing.lines, 1, k - 1)
                                 \o SubSeq(listing.lines, k + 1, Len(listing.lines))]

\* C18 (as claimed): a line a scan reads of fewer than 9 fields, or whose second field is not
\* an integer pid, or whose address matches neither grammar with a port in
\* 0..65535, gives no record, and the scan's result is the same without it.
C18_MalformedLineGivesNoRecord ==
    Scanned =>
        \A k \in ListedLines :
            LET parts == split_whitespace(listing.lines[k])
                addr == LocalText(parts)
            IN  (\/ Len(parts) < 9
                 \/ ParseI32(parts[2]) = None
                 \/ ~(MatchesBracketed(addr) \/ MatchesUnbracketed(addr)))
                   => /\ parse_lsof_line(listing.lines[k]) = None
                      /\ get_listening_ports(WithoutLine(k)).ports = ports

\* The last field of line k.
NameOf(k) ==
    LET parts == split_whitespace(listing.lines[k]) IN parts[Len(parts)]

\* The text of `name` after its first arrow.
AfterFirstArrow(name) == SubSeq(name, Find(name, Arrow)[1] + Len(Arrow) + 1, Len(name))

\* The text of `name` between its first arrow and the next one, or the end.
UpToNextArrow(name) ==
    LET rest == AfterFirstArrow(name)
    IN  IF Contains(rest, Arrow) THEN SubSeq(rest, 1, Find(rest, Arrow)[1]) ELSE rest

\* C19 (amended): a record from a line a scan reads whose last field contains an arrow has
\* state ESTABLISHED, its local address and port are parsed from the text before
\* the first arrow, and its foreign_address is the text between the first arrow
\* and the next arrow or the end of the field; a record from a line whose last
\* field has no arrow has an empty foreign_address.
C19_EstablishedSplit ==
    Scanned =>
        LET recs == Records
        IN  \A k \in ParsedIn(recs) :
                LET name == NameOf(k)
                    rec == recs[k][1]
                IN  IF Contains(name, Arrow)
                    THEN /\ rec.state = ESTABLISHED
                         /\ Some(<<rec.local_address, rec.port>>)
                              = parse_address_port(SubSeq(name, 1, Find(name, Arrow)[1]))
                         /\ rec.foreign_address = UpToNextArrow(name)
                    ELSE rec.foreign_address = <<>>

\* C19's case: the scan of a line whose last field has two arrows gave an
\* ESTABLISHED record with the text between them as foreign_address.
C19_Witness ==
    /\ Scanned /\ Len(ports) = 1 /\ Len(listing.lines) = 2
    /\ Contains(NameOf(2), Arrow) /\ Contains(AfterFirstArrow(NameOf(2)), Arrow)
    /\ ports[1].state = ESTABLISHED
    /\ ports[1].local_address = <<"a">> /\ ports[1].port = 1
    /\ ports[1].foreign_address = <<"b", ":", "2">>

\* C19 (as claimed): the foreign_address of a record from a line a scan reads whose last field
\* contains an arrow is the text after the arrow, verbatim.
C19_ForeignIsTextAfterArrow ==
    Scanned =>
        LET recs == Records
        IN  \A k \in ParsedIn(recs) :
                LET name == NameOf(k)
                    rec == recs[k][1]
                IN  IF Contains(name, Arrow)
                    THEN /\ rec.state = ESTABLISHED
                         /\ Some(<<rec.local_address, rec.port>>)
                              = parse_address_port(SubSeq(name, 1, Find(name, Arrow)[1]))
                         /\ rec.foreign_address = AfterFirstArrow(name)
                    ELSE rec.foreign_address = <<>>

\* The value of a port text (digits after an optional "+").
PortValue(text) == DecimalValue(IF Head(text) = "+" THEN Tail(text) ELSE text, 0)

\* What the bracketed grammar reads in `addr`: the text inside the brackets and
\* the port after `]:`.
BracketedReading(addr) ==
    LET e == CHOOSE i \in 1..Len(addr) : addr[i] = "]" /\ \A j \in 1..(i - 1) : addr[j] # "]"
    IN  <<SubSeq(addr, 2, e - 1), PortValue(SubSeq(addr, e + 2, Len(addr)))>>

\* What the unbracketed grammar reads in `addr`: the text before the last colon
\* and the port after it, up to a `(` if there is one.
UnbracketedReading(addr) ==
    LET c == CHOOSE i \in 1..Len(addr) : addr[i] = ":" /\ \A j \in (i + 1)..Len(addr) : addr[j] # ":"
        opens == {i \in (c + 1)..Len(addr) : addr[i] = "("}
        stop == IF opens = {} THEN Len(addr) + 1 ELSE CHOOSE i \in opens : \A j \in opens : i <= j
    IN  <<SubSeq(addr, 1, c - 1), PortValue(SubSeq(addr, c + 1, stop - 1))>>

\* C20: parse_address_port follows the two grammars, on every address a scan
\* reads and on the three below.  On a descriptor `[a]:p` it
\* gives a and p; on an unbracketed descriptor it gives the text before the last
\* colon and the port after it, a suffix starting at `(` cut off before the
\* integer is parsed.  So `[::1]:8080` gives ::1 and 8080, `*:9000` gives * and
\* 9000, `127.0.0.1:443(LISTEN)` gives port 443.
C20_AddressGrammars ==
    /\ Scanned =>
          \A k \in ListedLines :
              LET parts == split_whitespace(listing.lines[k])
                  addr == LocalText(parts)
                  read == parse_address_port(addr)
              IN  /\ MatchesBracketed(addr) => read = Some(BracketedReading(addr))
                  /\ MatchesUnbracketed(addr) => read = Some(UnbracketedReading(addr))
    /\ parse_address_port(<<"[", ":", ":", "1", "]", ":", "8", "0", "8", "0">>)
         = Some(<<<<":", ":", "1">>, 8080>>)
    /\ parse_address_port(<<"*", ":", "9", "0", "0", "0">>) = Some(<<<<"*">>, 9000>>)
    /\ parse_address_port(<<"1", "2", "7", ".", "0", ".", "0", ".", "1", ":", "4", "4", "3", "(">>
                             \o LISTEN \o <<")">>)
         = Some(<<<<"1", "2", "7", ".", "0", ".", "0", ".", "1">>, 443>>)

\* C20's case: a scan gave three records, from a bracketed address, from an
\* address with an annotation after the port, and from an address with two
\* colons.
C20_Witness ==
    /\ Scanned /\ Len(ports) = 3
    /\ ports[1].local_address = <<":", ":", "1">> /\ ports[1].port = 2
    /\ ports[2].local_address = <<"*">> /\ ports[2].port = 3 /\ ports[2].state = LISTEN
    /\ ports[3].local_address = <<"a", ":", "b">> /\ ports[3].port = U16Max

\* The fields of the listed line (the one after the header).
FieldsOfRow == split_whitespace(listing.lines[2])

\* C21: the state of a record follows the first rule that matches, in this
\* order: an arrow in the last field gives ESTABLISHED; else LISTEN in any field
\* gives LISTEN; else ESTABLISHED in any field gives ESTABLISHED; else LISTEN in
\* the last field or the one before it gives LISTEN; otherwise UNKNOWN.
C21_StateByFirstRule ==
    (Scanned /\ Len(listing.lines) = 2 /\ ports # <<>>) =>
        LET parts == FieldsOfRow
            last == Len(parts)
            arrow == Contains(parts[last], Arrow)
            listen == \E i \in 1..last : Contains(parts[i], LISTEN)
            established == \E i \in 1..last : Contains(parts[i], ESTABLISHED)
            near == Contains(parts[last], LISTEN) \/ Contains(parts[last - 1], LISTEN)
            state == ports[1].state
        IN  /\ Len(ports) = 1
            /\ arrow => state = ESTABLISHED
            /\ (~arrow /\ listen) => state = LISTEN
            /\ (~arrow /\ ~listen /\ established) => state = ESTABLISHED
            /\ (~arrow /\ ~listen /\ ~established /\ near) => state = LISTEN
            /\ (~arrow /\ ~listen /\ ~established /\ ~near) => state = UNKNOWN

\* C21's case: a record from a row with no arrow that has LISTEN in its last
\* field and ESTABLISHED in an earlier one: its state is LISTEN.
C21_Witness ==
    /\ Scanned /\ Len(listing.lines) = 2 /\ Len(ports) = 1
    /\ ~Contains(FieldsOfRow[9], Arrow)
    /\ Contains(FieldsOfRow[9], LISTEN)
    /\ FieldsOfRow[3] = ESTABLISHED
    /\ ports[1].state = LISTEN

\* C22 (as claimed): a signal delivered by disconnect, from the 'd' key or from
\* remove, goes to an ssh process with a socket on the tunnel's local_port; and a
\* disconnect of a Connected tunnel that succeeds has signalled an ssh process
\* with a socket on its local_port.
C22_SignalsOnlyTunnelSsh ==
    [][/\ (disconnect_tunnel /\ Signalled(kill_cmd'))
            => kill_cmd'[1].pid \in SshPidsOn(procs, Selected.local_port)
       /\ (confirm_action /\ DeletedIndex # 0 /\ Signalled(kill_cmd'))
            => kill_cmd'[1].pid \in SshPidsOn(procs, TunnelAt(DeletedIndex).local_port)
       /\ (/\ disconnect_tunnel /\ is_connected(Selected)
           /\ status_message' = Msg("Disconnected tunnel", <<>>))
            => /\ Signalled(kill_cmd')
               /\ kill_cmd'[1].pid \in SshPidsOn(procs, Selected.local_port)]_vars

\* The step delivers no signal to an ssh process on the port of entry j and
\* leaves the derived status of entry j as it was.
Unaffected(j) ==
    /\ Signalled(kill_cmd') => kill_cmd'[1].pid \notin SshPidsOn(procs, TunnelAt(j).local_port)
    /\ is_connected(TunnelAt(j)) <=> (find_ssh_pid_on(TunnelAt(j), procs') # None)

\* C23 (as claimed): connect, disconnect and remove applied to one entry deliver
\* no signal to the ssh process of another entry and leave the derived status
\* and the recorded pid of every other entry as they were, also when two
\* entries have the same local_port.
C23_OtherEntriesUnaffected ==
    [][/\ (connect_tunnel \/ connect_settle \/ connect_record \/ connect_wait
            \/ disconnect_tunnel)
            => \A j \in 1..Len(tunnels) :
                  j # tunnel_selected + 1
                    => /\ Unaffected(j)
                       /\ TunnelAt(j)'.process = TunnelAt(j).process
       /\ (confirm_action /\ DeletedIndex # 0)
            => \A j \in 1..Len(tunnels) :
                  j # DeletedIndex
                    => /\ Unaffected(j)
                       /\ \E i \in 1..Len(tunnels') : tunnels'[i] = tunnels[j]]_vars

----
\* The dialogs, the filter and the selections.

ForceKilled(k) == k # None /\ "force" \in DOMAIN k[1]
DefinedNames(ts) == {ts[i].name : i \in DOMAIN ts}

\* A step runs kill -9: every step that runs no command clears kill_cmd or, on
\* the way out, leaves it.
KillIssued == ForceKilled(kill_cmd') /\ kill_cmd' # kill_cmd

\* The definitions a step takes out of the tunnel list.
Deleted == DefinedNames(tunnels) \ DefinedNames(tunnels')

\* What 'K' and 'x' ask about in the current state.
KillRequest ==
    Some([kind |-> "KillProcess", pid |-> filtered_ports[port_selected + 1].pid])
DeleteRequest == Some([kind |-> "DeleteTunnel", name |-> Selected.name])

\* C24: kill -9 is issued, and a tunnel leaves the list, only by a step that
\* confirms in the open confirmation dialog.  The dialog opens only on a kill
\* request or a delete request, with that request's action pending, and the
\* pending action stays as it is while the dialog stays open, so the action
\* confirmed is the most recent request's: a kill is of the pending pid, a
\* deletion of the pending name.  One confirmation kills one process or deletes
\* one tunnel, never both; declining kills nothing and deletes nothing.
C24_OnlyConfirmedAction ==
    [][/\ (KillIssued \/ Deleted # {}) => (show_confirm /\ confirm_action)
       /\ (~show_confirm /\ show_confirm')
             => \/ port_selected < Len(filtered_ports) /\ pending_action' = KillRequest
                \/ OnTunnels /\ HasSelected /\ pending_action' = DeleteRequest
       /\ (show_confirm /\ show_confirm') => pending_action' = pending_action
       /\ KillIssued
             => /\ pending_action =
                     Some([kind |-> "KillProcess", pid |-> kill_cmd'[1].pid])
                /\ Deleted = {}
       /\ Deleted # {}
             => /\ pending_action # None
                /\ pending_action[1].kind = "DeleteTunnel"
                /\ Deleted = {pending_action[1].name}
                /\ ~KillIssued
       /\ decline_confirm
             => /\ kill_cmd' = None
                /\ UNCHANGED <<tunnels, file, procs, listing, ports>>]_vars

\* A tunnel has been deleted and, later, a process killed.
C24_Witness ==
    /\ ForceKilled(kill_cmd) /\ kill_cmd[1].alive
    /\ Len(tunnels) = 1
    /\ Len(ports) = 1

DialogOpen == show_input \/ show_filter \/ show_confirm

AtMostOneDialog ==
    /\ ~(show_input /\ show_filter)
    /\ ~(show_input /\ show_confirm)
    /\ ~(show_filter /\ show_confirm)

\* The actions of the keys of normal mode that the claim lists.
NormalModeAction ==
    \/ next_tab
    \/ \E tab \in {"Ports", "Tunnels"} : goto_tab(tab)
    \/ select_next \/ select_prev \/ select_first \/ select_last
    \/ refresh_ports
    \/ connect_tunnel
    \/ disconnect_tunnel
    \/ request_kill
    \/ request_delete_tunnel

\* C25: at most one of the input dialog, the filter and the confirmation dialog
\* is open in any reachable state.  A step taken while one is open is none of
\* the normal-mode actions: the tab stays; with the input dialog or the filter
\* open the tunnels, their selection, the scanned ports and the pending action
\* stay and no command is run; with the input dialog open the list shown and
\* its selection stay as well; with the confirmation dialog open the step
\* confirms, declines or quits.
C25_OneDialogNoNormalAction ==
    /\ []AtMostOneDialog
    /\ [][DialogOpen =>
            /\ ~NormalModeAction
            /\ current_tab' = current_tab
            /\ (show_input \/ show_filter)
                  => /\ UNCHANGED <<tunnels, tunnel_selected, procs, listing, ports,
                                    pending_action>>
                     /\ kill_cmd' = None
            /\ show_input => UNCHANGED <<filtered_ports, port_selected, filter_text>>
            /\ show_confirm => (confirm_action \/ decline_confirm \/ quit)]_vars

\* The filter is open with text typed into it, after a confirmation dialog was
\* declined.
C25_Witness == show_filter /\ filter_text # <<>> /\ pending_action # None /\ pc = "idle"

\* C26: in every reachable state the input dialog is open exactly when
\* input_mode is not None, and exactly when a new tunnel definition is pending.
C26_InputDialogAgrees ==
    /\ show_input <=> input_mode # "None"
    /\ show_input <=> new_tunnel # None

\* The dialog has closed on the final submit.
C26_Witness ==
    /\ ~show_input
    /\ status_message = Msg("Added tunnel", <<>>)
    /\ pc = "idle"

\* A port is shown under filter `text`.
ShownUnder(q, text) ==
    LET t == ToLower(text)
    IN  \/ Contains(to_string(q.port), t)
        \/ Contains(ToLower(q.process_name), t)
        \/ Contains(to_string(q.pid), t)

\* C27 (as claimed): in every reachable state after the startup scan,
\* filtered_ports is the subsequence of ports whose port number, lower-cased
\* process name or pid contains the lower-cased filter_text, and is ports itself
\* when filter_text is empty.
C27_FilteredIsFilterOfPorts ==
    /\ filtered_ports = SelectSeq(ports, LAMBDA q : ShownUnder(q, filter_text))
    /\ filter_text = <<>> => filtered_ports = ports

\* Each selection names an entry of its list unless the list is empty.
SelectionsInRange ==
    /\ filtered_ports # <<>> => port_selected < Len(filtered_ports)
    /\ tunnels # <<>> => tunnel_selected < Len(tunnels)

\* The index after `i` and the index before `i` in a list of `n` entries, going
\* round at the ends.
AfterWrapping(i, n) == IF i = n - 1 THEN 0 ELSE i + 1
BeforeWrapping(i, n) == IF i = 0 THEN n - 1 ELSE i - 1

====
